---- MODULE Spec2Model ----
(***************************************************************************)
(* A model of glyphsLib.parser.Parser (Lib/glyphsLib/parser/__init__.py):  *)
(* the recursive-descent parser of the Glyphs property-list dialect, its  *)
(* lexical patterns, the normalisation of scalars, and the two entry      *)
(* points parse and parse_into_object with their calls of the external    *)
(* factory from_dict.                                                     *)
(*                                                                         *)
(* Text is a sequence of code points (naturals).  Offsets are Python's:   *)
(* offset i names the element text[i + 1].                                *)
(***************************************************************************)
EXTENDS Integers, Sequences, FiniteSets, TLC

VARIABLES
    current_type,   \* Parser.current_type, fixed by __init__ ("None" or a class name)
    formatVersion,  \* Parser.formatVersion, fixed by __init__
    entry,          \* the entry point the caller uses: "parse" or "parse_into_object"
    fvArg,          \* the formatVersion argument of parse_into_object
    text,           \* the text handed to the entry point
    pc,             \* the position of the running call
    i,              \* the cursor offset
    stack,          \* the active _parse_dict / _parse_list frames, innermost first
    tok,            \* m.group(1) of the scalar or key matched last
    val,            \* the value the production that returned last has produced
    assigned,       \* the (name, value) assignments, in order, of the dict closed last
    err,            \* the message of the raised ValueError, "" when none
    calls,          \* the calls of from_dict made so far, in order
    res,            \* the object handed to parse_into_object
    ret             \* what the entry point returned

vars ==
    <<current_type, formatVersion, entry, fvArg, text, pc, i, stack, tok, val,
      assigned, err, calls, res, ret>>

-----------------------------------------------------------------------------
(* Code points of the characters the patterns name. *)

TAB == 9
SP == 32
QUOTE == 34
LPAREN == 40
RPAREN == 41
COMMA == 44
DOT == 46
SEMI == 59
LT == 60
EQ == 61
GT == 62
BACKSLASH == 92
LBRACE == 123
RBRACE == 125
ch0 == 48
ch1 == 49
ch2 == 50
ch5 == 53
chA == 65
chU == 85
cha == 97
chb == 98
chg == 103
chn == 110

\* \s of a str pattern, and the characters str.strip() strips, below 128.
IsSpace(c) == c \in (9..13) \cup (28..32)

\* [-_./$A-Za-z0-9]
IsBare(c) == c \in {45, 95, 46, 47, 36} \cup (65..90) \cup (97..122) \cup (48..57)

\* [A-Fa-f0-9]
IsHex(c) == c \in (65..70) \cup (97..102) \cup (48..57)

\* [0-7]
IsOctal(c) == c \in 48..55

IsDigit(c) == c \in 48..57

\* int(c, 16) of one hexadecimal digit.
HexVal(c) == IF c \in 48..57 THEN c - 48 ELSE IF c \in 65..70 THEN c - 55 ELSE c - 87

Min(S) == CHOOSE m \in S : \A n \in S : m <= n

-----------------------------------------------------------------------------
(* The compiled patterns, each as pattern.match(text, i).  A token pattern *)
(* gives the length of the match, 0 for no match (every pattern consumes   *)
(* at least one character); a scalar pattern gives the length and group 1. *)

RECURSIVE ws_run(_, _)
ws_run(t, p) ==
    IF p < Len(t) /\ IsSpace(t[p + 1]) THEN 1 + ws_run(t, p + 1) ELSE 0

RECURSIVE bare_run(_, _)
bare_run(t, p) ==
    IF p < Len(t) /\ IsBare(t[p + 1]) THEN 1 + bare_run(t, p + 1) ELSE 0

RECURSIVE hex_run(_, _)
hex_run(t, p) ==
    IF p < Len(t) /\ IsHex(t[p + 1]) THEN 1 + hex_run(t, p + 1) ELSE 0

\* \s*c for one character c.
token_match(t, p, c) ==
    LET w == ws_run(t, p)
    IN  IF p + w < Len(t) /\ t[p + w + 1] = c THEN w + 1 ELSE 0

start_dict_re(t, p) == token_match(t, p, LBRACE)
end_dict_re(t, p) == token_match(t, p, RBRACE)
dict_delim_re(t, p) == token_match(t, p, SEMI)
start_list_re(t, p) == token_match(t, p, LPAREN)
end_list_re(t, p) == token_match(t, p, RPAREN)
list_delim_re(t, p) == token_match(t, p, COMMA)

NoMatch == [len |-> 0, g1 |-> <<>>]

\* The offsets at which ".*?(?<!\\)" may end when the opening quote is at offset q:
\* a quote whose preceding character is no backslash.
quote_ends(t, q) ==
    {j \in (q + 1)..(Len(t) - 1) : t[j + 1] = QUOTE /\ t[j] # BACKSLASH}

\* value_re = \s*(".*?(?<!\\)"|[-_./$A-Za-z0-9]+), DOTALL
value_re(t, p) ==
    LET w == ws_run(t, p)
        q == p + w
    IN  IF q < Len(t) /\ t[q + 1] = QUOTE
        THEN LET ends == quote_ends(t, q)
             IN  IF ends = {} THEN NoMatch
                 ELSE LET j == Min(ends)
                      IN  [len |-> j + 1 - p, g1 |-> SubSeq(t, q + 1, j + 1)]
        ELSE LET r == bare_run(t, q)
             IN  IF r = 0 THEN NoMatch
                 ELSE [len |-> w + r, g1 |-> SubSeq(t, q + 1, q + r)]

\* attr_re = \s*(".*?(?<!\\)"|[-_./$A-Za-z0-9]+)\s*=, DOTALL: the lazy .*? is
\* extended until what follows the closing quote matches \s*= as well.
attr_re(t, p) ==
    LET w == ws_run(t, p)
        q == p + w
    IN  IF q < Len(t) /\ t[q + 1] = QUOTE
        THEN LET ends == {j \in quote_ends(t, q) : token_match(t, j + 1, EQ) # 0}
             IN  IF ends = {} THEN NoMatch
                 ELSE LET j == Min(ends)
                      IN  [len |-> j + 1 - p + token_match(t, j + 1, EQ),
                           g1 |-> SubSeq(t, q + 1, j + 1)]
        ELSE LET r == bare_run(t, q)
             IN  IF r = 0 \/ token_match(t, q + r, EQ) = 0 THEN NoMatch
                 ELSE [len |-> w + r + token_match(t, q + r, EQ),
                       g1 |-> SubSeq(t, q + 1, q + r)]

\* hex_re = \s*<([A-Fa-f0-9]+)>
hex_re(t, p) ==
    LET w == ws_run(t, p)
        q == p + w
    IN  IF q < Len(t) /\ t[q + 1] = LT
        THEN LET r == hex_run(t, q + 1)
             IN  IF r > 0 /\ q + 1 + r < Len(t) /\ t[q + r + 2] = GT
                 THEN [len |-> w + r + 2, g1 |-> SubSeq(t, q + 2, q + r + 1)]
                 ELSE NoMatch
        ELSE NoMatch

-----------------------------------------------------------------------------
(* The value normaliser. *)

\* str.replace(old, new): the occurrences of old, left to right, not overlapping.
RECURSIVE str_replace(_, _, _)
str_replace(s, old, new) ==
    IF Len(s) < Len(old) THEN s
    ELSE IF SubSeq(s, 1, Len(old)) = old
         THEN new \o str_replace(SubSeq(s, Len(old) + 1, Len(s)), old, new)
         ELSE <<Head(s)>> \o str_replace(Tail(s), old, new)

\* The pattern with [0-7]{3} for the octal group.
unescape_re_wide(s) ==
    IF Len(s) >= 4 /\ s[1] = BACKSLASH /\ IsOctal(s[2]) /\ IsOctal(s[3]) /\ IsOctal(s[4])
    THEN 1
    ELSE IF Len(s) >= 6 /\ s[1] = BACKSLASH /\ s[2] = chU
            /\ \A k \in 3..6 : IsHex(s[k])
         THEN 2
         ELSE 0

\* _unescape_re = \\(?:(0[0-7]{2})|(?:U([0-9a-fA-F]{4}))) matched at the head of s:
\* 1 for the octal group, 2 for the hexadecimal group, 0 for no match.
_unescape_re(s) ==
    IF Len(s) >= 4 /\ s[1] = BACKSLASH /\ s[2] = ch0 /\ IsOctal(s[3]) /\ IsOctal(s[4])
    THEN 1
    ELSE IF Len(s) >= 6 /\ s[1] = BACKSLASH /\ s[2] = chU
            /\ \A k \in 3..6 : IsHex(s[k])
         THEN 2
         ELSE 0

\* _unescape_fn: chr(int(group 1, 8)) or chr(int(group 2, 16)).
_unescape_fn(s, group) ==
    IF group = 1
    THEN (s[2] - 48) * 64 + (s[3] - 48) * 8 + (s[4] - 48)
    ELSE HexVal(s[3]) * 4096 + HexVal(s[4]) * 256 + HexVal(s[5]) * 16 + HexVal(s[6])

\* _unescape_re.sub(_unescape_fn, s)
RECURSIVE unescape_sub(_)
unescape_sub(s) ==
    IF s = <<>> THEN <<>>
    ELSE LET g == _unescape_re(s)
         IN  IF g = 1 THEN <<_unescape_fn(s, 1)>> \o unescape_sub(SubSeq(s, 5, Len(s)))
             ELSE IF g = 2
                  THEN <<_unescape_fn(s, 2)>> \o unescape_sub(SubSeq(s, 7, Len(s)))
                  ELSE <<Head(s)>> \o unescape_sub(Tail(s))

_trim_value(value) ==
    IF value[1] = QUOTE
    THEN unescape_sub(
             str_replace(
                 str_replace(SubSeq(value, 2, Len(value) - 1),
                             <<BACKSLASH, QUOTE>>, <<QUOTE>>),
                 <<BACKSLASH, BACKSLASH>>, <<BACKSLASH>>))
    ELSE value

\* str.lower() below 128.
Lower(s) == [n \in 1..Len(s) |-> IF s[n] \in 65..90 THEN s[n] + 32 ELSE s[n]]

\* Whether float(value) succeeds, for the decimal literals: an optional sign,
\* digits with at most one point, at least one digit.  (Exponents, underscores
\* and signed inf/nan are forms float() also takes.)
float_parses(value) ==
    LET body == IF value # <<>> /\ value[1] \in {43, 45} THEN Tail(value) ELSE value
        dots == {n \in 1..Len(body) : body[n] = DOT}
    IN  /\ Cardinality(dots) <= 1
        /\ Len(body) > Cardinality(dots)
        /\ \A n \in (1..Len(body)) \ dots : IsDigit(body[n])

\* float(value).is_integer() of a decimal literal: no digit but 0 after the point.
is_integer(value) ==
    \A n \in 1..Len(value) :
        (\E d \in 1..(n - 1) : value[d] = DOT) => value[n] = ch0

\* Parser._guess_current_type, by the name of the type it converts to.  No
\* production calls it.
_guess_current_type(parsed, value) ==
    IF Lower(value) \in { <<105, 110, 102, 105, 110, 105, 116, 121>>,
                          <<105, 110, 102>>, <<110, 97, 110>> }
    THEN "str"
    ELSE IF parsed[Len(parsed)] # QUOTE
         THEN IF float_parses(value)
              THEN IF is_integer(value) THEN "int" ELSE "float"
              ELSE "str"
         ELSE "str"

-----------------------------------------------------------------------------
(* Raw values.  A mapping is its entries in iteration order. *)

None == [t |-> "none", v |-> <<>>]
Str(s) == [t |-> "str", v |-> s]
Blob(h) == [t |-> "blob", v |-> h]
List(items) == [t |-> "list", v |-> items]
Dict(entries) == [t |-> "dict", v |-> entries]

\* OrderedDict.__setitem__ moving a key that is assigned again to the end.
dict_set_move(entries, name, value) ==
    SelectSeq(entries, LAMBDA e : e.k # name) \o <<[k |-> name, v |-> value]>>

\* python_dict[name] = value on an OrderedDict: a key already present keeps its
\* place and takes the new value, a new key goes to the end.
dict_set(entries, name, value) ==
    IF \E n \in 1..Len(entries) : entries[n].k = name
    THEN [n \in 1..Len(entries) |->
             IF entries[n].k = name THEN [k |-> name, v |-> value] ELSE entries[n]]
    ELSE Append(entries, [k |-> name, v |-> value])

\* The check of the rest left out.
RestIgnored(t, p) == TRUE

\* text[i:].strip() is empty.
RestIsSpace(t, p) == \A n \in (p + 1)..Len(t) : IsSpace(t[n])

\* The external factory cls.from_dict(x, formatVersion=fv): an instance that
\* records what it was made from.
from_dict(cls, x, fv) ==
    [t |-> "inst", v |-> <<[cls |-> cls, arg |-> x, formatVersion |-> fv]>>]

\* One recorded call of from_dict.
Call(cls, x, fv, target) ==
    [cls |-> cls, arg |-> x, formatVersion |-> fv, target |-> target]

Offset(n) == [t |-> "offset", v |-> n]

\* A frame of _parse_dict or _parse_list.  start, body and iter are history: the
\* offsets at which _parse was entered for the production, at which the
\* production itself was entered, and at which its current iteration began.
Frame(kind, em, at, body) ==
    [kind |-> kind, acc |-> <<>>, name |-> <<>>, end_match |-> em,
     hist |-> <<>>, start |-> at, body |-> body, iter |-> body]

\* The cursor left where it was.
no_advance(p, n) == p

\* i += len(parsed)
advance(p, n) == p + n

\* _fail: the ValueError leaves every active frame.
Fail(message) ==
    /\ pc' = "error"
    /\ err' = message
    /\ stack' = <<>>
    /\ UNCHANGED <<current_type, formatVersion, entry, fvArg, text, i, tok, val,
                   assigned, calls, res, ret>>

-----------------------------------------------------------------------------
(* The entry points and the productions. *)

\* Parser.parse, to its call of _parse(text, 0).
parse ==
    /\ pc = "idle"
    /\ entry = "parse"
    /\ pc' = "_parse"
    /\ i' = 0
    /\ UNCHANGED <<current_type, formatVersion, entry, fvArg, text, stack, tok, val,
                   assigned, err, calls, res, ret>>

\* Parser.parse_into_object, to its call of _parse(text, 0).
parse_into_object ==
    /\ pc = "idle"
    /\ entry = "parse_into_object"
    /\ pc' = "_parse"
    /\ i' = 0
    /\ UNCHANGED <<current_type, formatVersion, entry, fvArg, text, stack, tok, val,
                   assigned, err, calls, res, ret>>

\* Parser._parse: the dispatch on what matches at i.  Entering _parse_dict or
\* _parse_list includes that production's first end match.
_parse ==
    /\ pc = "_parse"
    /\ LET d == start_dict_re(text, i)
           l == start_list_re(text, i)
           m == value_re(text, i)
           h == hex_re(text, i)
       IN  IF d # 0
           THEN /\ i' = advance(i, d)
                /\ stack' = <<Frame("dict", end_dict_re(text, advance(i, d)), i,
                                    advance(i, d))>> \o stack
                /\ pc' = "_parse_dict"
                /\ UNCHANGED <<current_type, formatVersion, entry, fvArg, text, tok,
                               val, assigned, err, calls, res, ret>>
           ELSE IF l # 0
           THEN /\ i' = advance(i, l)
                /\ stack' = <<Frame("list", end_list_re(text, advance(i, l)), i,
                                    advance(i, l))>> \o stack
                /\ pc' = "_parse_list"
                /\ UNCHANGED <<current_type, formatVersion, entry, fvArg, text, tok,
                               val, assigned, err, calls, res, ret>>
           ELSE IF m.len # 0
           THEN /\ i' = advance(i, m.len)
                /\ tok' = m.g1
                /\ val' = Str(_trim_value(m.g1))
                /\ pc' = "return"
                /\ UNCHANGED <<current_type, formatVersion, entry, fvArg, text, stack,
                               assigned, err, calls, res, ret>>
           ELSE IF h.len # 0
           THEN /\ i' = advance(i, h.len)
                /\ val' = Blob(h.g1)
                /\ pc' = "return"
                /\ UNCHANGED <<current_type, formatVersion, entry, fvArg, text, stack,
                               tok, assigned, err, calls, res, ret>>
           ELSE Fail("Unexpected content")

\* Parser._parse_dict at the loop test: the end of the dict, or the key of the
\* next entry up to the call of _parse for its value.
_parse_dict ==
    /\ pc = "_parse_dict"
    /\ LET f == Head(stack)
           m == attr_re(text, i)
       IN  IF f.end_match # 0
           THEN /\ i' = advance(i, f.end_match)
                /\ val' = Dict(f.acc)
                /\ assigned' = f.hist
                /\ stack' = Tail(stack)
                /\ pc' = "return"
                /\ UNCHANGED <<current_type, formatVersion, entry, fvArg, text, tok,
                               err, calls, res, ret>>
           ELSE IF m.len = 0
           THEN Fail("Unexpected dictionary content")
           ELSE /\ i' = advance(i, m.len)
                /\ tok' = m.g1
                /\ stack' = <<[f EXCEPT !.name = _trim_value(m.g1), !.iter = i]>>
                                \o Tail(stack)
                /\ pc' = "_parse"
                /\ UNCHANGED <<current_type, formatVersion, entry, fvArg, text, val,
                               assigned, err, calls, res, ret>>

\* The delimiter taken as optional before the closing brace, as in a list.
dict_entry_lenient ==
    /\ pc = "return"
    /\ stack # <<>>
    /\ Head(stack).kind = "dict"
    /\ LET f == Head(stack)
           d == dict_delim_re(text, i)
       IN  IF d = 0 /\ end_dict_re(text, i) = 0
           THEN Fail("Missing delimiter in dictionary before content")
           ELSE /\ i' = advance(i, d)
                /\ stack' = <<[f EXCEPT !.acc = dict_set(f.acc, f.name, val),
                                        !.hist = Append(f.hist, [k |-> f.name, v |-> val]),
                                        !.end_match = end_dict_re(text, advance(i, d))]>>
                                \o Tail(stack)
                /\ pc' = "_parse_dict"
                /\ UNCHANGED <<current_type, formatVersion, entry, fvArg, text, tok,
                               val, assigned, err, calls, res, ret>>

\* Parser._parse_dict after _parse returned the entry's value: the assignment,
\* the delimiter and the next end match.
dict_entry ==
    /\ pc = "return"
    /\ stack # <<>>
    /\ Head(stack).kind = "dict"
    /\ LET f == Head(stack)
           d == dict_delim_re(text, i)
       IN  IF d = 0
           THEN Fail("Missing delimiter in dictionary before content")
           ELSE /\ i' = advance(i, d)
                /\ stack' = <<[f EXCEPT !.acc = dict_set(f.acc, f.name, val),
                                        !.hist = Append(f.hist, [k |-> f.name, v |-> val]),
                                        !.end_match = end_dict_re(text, advance(i, d))]>>
                                \o Tail(stack)
                /\ pc' = "_parse_dict"
                /\ UNCHANGED <<current_type, formatVersion, entry, fvArg, text, tok,
                               val, assigned, err, calls, res, ret>>

\* Parser._parse_list at the loop test: the end of the list, or the call of
\* _parse for the next item.
_parse_list ==
    /\ pc = "_parse_list"
    /\ LET f == Head(stack)
       IN  IF f.end_match # 0
           THEN /\ i' = advance(i, f.end_match)
                /\ val' = List(f.acc)
                /\ stack' = Tail(stack)
                /\ pc' = "return"
                /\ UNCHANGED <<current_type, formatVersion, entry, fvArg, text, tok,
                               assigned, err, calls, res, ret>>
           ELSE /\ stack' = <<[f EXCEPT !.iter = i]>> \o Tail(stack)
                /\ pc' = "_parse"
                /\ UNCHANGED <<current_type, formatVersion, entry, fvArg, text, i, tok,
                               val, assigned, err, calls, res, ret>>

\* Parser._parse_list after _parse returned an item: the append, the end match
\* and, without one, the delimiter.
list_item ==
    /\ pc = "return"
    /\ stack # <<>>
    /\ Head(stack).kind = "list"
    /\ LET f == Head(stack)
           e == end_list_re(text, i)
           c == list_delim_re(text, i)
       IN  IF e = 0 /\ c = 0
           THEN Fail("Missing delimiter in list before content")
           ELSE /\ i' = IF e = 0 THEN advance(i, c) ELSE i
                /\ stack' = <<[f EXCEPT !.acc = Append(f.acc, val),
                                        !.end_match = e]>>
                                \o Tail(stack)
                /\ pc' = "_parse_list"
                /\ UNCHANGED <<current_type, formatVersion, entry, fvArg, text, tok,
                               val, assigned, err, calls, res, ret>>

\* The binder without its branch for a sequence.
bind_first_only(result) ==
    IF current_type # "None"
    THEN [calls |-> <<Call(current_type, result, formatVersion, "None")>>,
          ret |-> from_dict(current_type, result, formatVersion)]
    ELSE [calls |-> <<>>, ret |-> result]

\* The value parse returns: the raw tree, or what the factory makes of it.
bind(result) ==
    IF current_type # "None"
    THEN IF result.t = "list"
         THEN [calls |-> [n \in 1..Len(result.v) |->
                            Call(current_type, result.v[n], formatVersion, "None")],
               ret |-> List([n \in 1..Len(result.v) |->
                               from_dict(current_type, result.v[n], formatVersion)])]
         ELSE [calls |-> <<Call(current_type, result, formatVersion, "None")>>,
               ret |-> from_dict(current_type, result, formatVersion)]
    ELSE [calls |-> <<>>, ret |-> result]

\* Parser.parse after _parse returned the top-level value.
parse_return ==
    /\ pc = "return"
    /\ stack = <<>>
    /\ entry = "parse"
    /\ IF ~RestIsSpace(text, i)
       THEN Fail("Unexpected trailing content")
       ELSE /\ calls' = calls \o bind(val).calls
            /\ ret' = bind(val).ret
            /\ pc' = "done"
            /\ UNCHANGED <<current_type, formatVersion, entry, fvArg, text, i, stack,
                           tok, val, assigned, err, res>>

\* Parser.parse_into_object after _parse returned the top-level value.
parse_into_object_return ==
    /\ pc = "return"
    /\ stack = <<>>
    /\ entry = "parse_into_object"
    /\ calls' = Append(calls, Call(res.cls, val, formatVersion, "res"))
    /\ res' = [res EXCEPT !.bound = Append(@, [arg |-> val, formatVersion |-> formatVersion])]
    /\ ret' = Offset(i)
    /\ pc' = "done"
    /\ UNCHANGED <<current_type, formatVersion, entry, fvArg, text, i, stack, tok, val,
                   assigned, err>>

Next ==
    \/ parse
    \/ parse_into_object
    \/ _parse
    \/ _parse_dict
    \/ dict_entry
    \/ _parse_list
    \/ list_item
    \/ parse_return
    \/ parse_into_object_return

-----------------------------------------------------------------------------
(* The inputs. *)

MaxLen == 4
MaxEntries == 3
MaxItems == 3
MaxContent == 6

\* Every text of up to MaxLen characters over the structural characters, the
\* quote, the backslash, a space, a letter and a digit.
Alphabet ==
    {LBRACE, RBRACE, LPAREN, RPAREN, COMMA, SEMI, EQ, QUOTE, BACKSLASH, SP, cha, ch1}

CharTexts == UNION {[1..n -> Alphabet] : n \in 1..MaxLen}

\* The concatenations of up to n pieces of P.
RECURSIVE Rep(_, _)
Rep(P, n) ==
    IF n = 0 THEN {<<>>}
    ELSE LET R == Rep(P, n - 1) IN R \cup {r \o p : r \in R, p \in P}

\* Dicts of up to MaxEntries entries: a bare or quoted key, a scalar or list
\* value, and the delimiter present or missing.
Keys == {<<cha>>, <<chb>>, <<QUOTE, cha, QUOTE>>}
EntryVals == {<<ch1>>, <<LPAREN, ch2, RPAREN>>}
DictDelims == {<<SEMI>>, <<>>}
Entries == {k \o <<EQ>> \o v \o d : k \in Keys, v \in EntryVals, d \in DictDelims}
DictTexts == {<<LBRACE>> \o b \o <<RBRACE>> : b \in Rep(Entries, MaxEntries)}

\* Lists of up to MaxItems items: a scalar, a blob or a dict, followed by a
\* comma, a space or nothing.
ItemVals == {<<ch1>>, <<LT, ch0, chA, GT>>, <<LBRACE, cha, EQ, ch1, SEMI, RBRACE>>}
ListSeps == {<<COMMA>>, <<SP>>, <<>>}
Items == {v \o s : v \in ItemVals, s \in ListSeps}
ListTexts == {<<LPAREN>> \o b \o <<RPAREN>> : b \in Rep(Items, MaxItems)}

\* What may follow the top-level value.
Trailers == {<<>>, <<SP>>, <<SP, chg>>}

Texts == CharTexts \cup {t \o r : t \in DictTexts \cup ListTexts, r \in Trailers}

\* The texts the entry points are tried on under every configuration.
BindTexts ==
    { <<LBRACE, cha, EQ, ch1, SEMI, RBRACE>>,
      <<LBRACE, cha, EQ, ch1, SEMI, RBRACE, SP, chg>>,
      <<LBRACE, cha, EQ, ch1, RBRACE>>,
      <<LPAREN, LBRACE, cha, EQ, ch1, SEMI, RBRACE, COMMA,
        LBRACE, chb, EQ, ch2, SEMI, RBRACE, RPAREN>>,
      <<LPAREN, RPAREN>>,
      <<ch1, DOT, ch5>>,
      <<ch1>> }

Classes == {"None", "GSGuide"}
FormatVersions == {2, 3}

Quiet ==
    /\ pc = "idle"
    /\ i = 0
    /\ stack = <<>>
    /\ tok = <<>>
    /\ val = None
    /\ assigned = <<>>
    /\ err = ""
    /\ calls = <<>>
    /\ res = [cls |-> "GSFont", bound |-> <<>>]
    /\ ret = None

\* A parser as Parser() constructs it, about to parse one of Texts.
InitParse ==
    /\ current_type = "None"
    /\ formatVersion = 2
    /\ entry = "parse"
    /\ fvArg = 2
    /\ text \in Texts
    /\ Quiet

\* A parser of any configuration, about to be called at either entry point.
InitBind ==
    /\ current_type \in Classes
    /\ formatVersion \in FormatVersions
    /\ entry \in {"parse", "parse_into_object"}
    /\ fvArg \in FormatVersions
    /\ text \in BindTexts
    /\ Quiet

Init == InitParse \/ InitBind

Spec == Init /\ [][Next]_vars

-----------------------------------------------------------------------------
(* The normaliser alone: parse on one scalar token. *)

TrimAlphabet == {BACKSLASH, QUOTE, ch0, ch1, chU, chn}

\* A quoted token of up to MaxContent characters between its quotes, or a bare one.
TrimTexts ==
    {<<QUOTE>> \o c \o <<QUOTE>> :
        c \in UNION {[1..n -> TrimAlphabet] : n \in 0..MaxContent}}
    \cup { <<QUOTE, cha, BACKSLASH, ch0, ch1, ch1, chb, QUOTE>>,
           <<QUOTE, cha, BACKSLASH, BACKSLASH, chb, QUOTE>>,
           <<QUOTE, BACKSLASH, chU, ch0, ch0, ch0, chA, QUOTE>>,
           <<cha>>, <<ch1, DOT, ch5>>, <<chU, ch0, ch1>> }

InitTrim ==
    /\ current_type = "None"
    /\ formatVersion = 2
    /\ entry = "parse"
    /\ fvArg = 2
    /\ text \in TrimTexts
    /\ Quiet

NextTrim == parse \/ _parse \/ parse_return

SpecTrim == InitTrim /\ [][NextTrim]_vars

-----------------------------------------------------------------------------
(* The statements checked. *)

ExDictOk == <<LBRACE, cha, EQ, ch1, SEMI, RBRACE>>
ExDictNoDelim == <<LBRACE, cha, EQ, ch1, RBRACE>>
ExDictGarbage == <<LBRACE, cha, EQ, ch1, SEMI, RBRACE, SP, chg>>
ExListTrailingComma == <<LPAREN, ch1, COMMA, ch1, COMMA, ch1, COMMA, RPAREN>>
ExOctal == <<QUOTE, cha, BACKSLASH, ch0, ch1, ch1, chb, QUOTE>>
ExBackslash == <<QUOTE, cha, BACKSLASH, BACKSLASH, chb, QUOTE>>

MissingDictDelim == "Missing delimiter in dictionary before content"
TrailingContent == "Unexpected trailing content"

\* C1: with no target type, a bare scalar is returned with the inferred type
\* (an integer, a float, or the string itself) and a quoted one as a string.
C1_BareScalarsTyped ==
    (current_type = "None" /\ pc = "return" /\ val.t \in {"str", "int", "float"})
        => val.t = _guess_current_type(tok, val.v)

\* C2: at the top of every iteration of the list loop, also right after a ','
\* was consumed, a matching end-list token closes the list; so (1,1,1,) parses.
C2_EndListClosesAtLoopTop ==
    /\ (pc = "_parse_list" /\ end_list_re(text, i) # 0) => Head(stack).end_match # 0
    /\ text = ExListTrailingComma => pc # "error"

\* The grammar's quotedstring: the offset of the first quote at or after offset p
\* that is not the second character of an escape pair, -1 when there is none.
RECURSIVE quotedstring_end(_, _)
quotedstring_end(t, p) ==
    IF p >= Len(t) THEN -1
    ELSE IF t[p + 1] = BACKSLASH /\ p + 1 < Len(t) /\ t[p + 2] \in {QUOTE, BACKSLASH}
         THEN quotedstring_end(t, p + 2)
         ELSE IF t[p + 1] = QUOTE THEN p ELSE quotedstring_end(t, p + 1)

\* C3: a matched quoted scalar (value or key) is exactly the grammar's
\* quotedstring, ending at the first quote that is not the second character of
\* an escape pair; a quotedstring at a value position is matched, not refused.
C3_QuotedTokenIsQuotedstring ==
    /\ (tok # <<>> /\ tok[1] = QUOTE) => quotedstring_end(tok, 1) = Len(tok) - 1
    /\ (pc = "error" /\ err = "Unexpected content")
        => LET q == i + ws_run(text, i)
           IN  ~(q < Len(text) /\ text[q + 1] = QUOTE /\ quotedstring_end(text, q + 1) >= 0)

\* Every backslash followed by c replaced by c, left to right.
RECURSIVE Unpair(_, _)
Unpair(s, c) ==
    IF s = <<>> THEN <<>>
    ELSE IF Len(s) >= 2 /\ s[1] = BACKSLASH /\ s[2] = c
         THEN <<c>> \o Unpair(SubSeq(s, 3, Len(s)), c)
         ELSE <<s[1]>> \o Unpair(Tail(s), c)

\* The two escape families decoded, everything else kept: backslash and three
\* octal digits of a value up to octal 077, backslash U and four hex digits.
RECURSIVE Decode(_)
Decode(s) ==
    IF s = <<>> THEN <<>>
    ELSE IF /\ Len(s) >= 4
            /\ s[1] = BACKSLASH
            /\ \A k \in 2..4 : s[k] \in 48..55
            /\ (s[2] - 48) * 64 + (s[3] - 48) * 8 + (s[4] - 48) <= 63
         THEN <<(s[2] - 48) * 64 + (s[3] - 48) * 8 + (s[4] - 48)>>
                  \o Decode(SubSeq(s, 5, Len(s)))
         ELSE IF /\ Len(s) >= 6
                 /\ s[1] = BACKSLASH
                 /\ s[2] = chU
                 /\ \A k \in 3..6 : IsHex(s[k])
              THEN <<HexVal(s[3]) * 4096 + HexVal(s[4]) * 256
                         + HexVal(s[5]) * 16 + HexVal(s[6])>>
                       \o Decode(SubSeq(s, 7, Len(s)))
              ELSE <<s[1]>> \o Decode(Tail(s))

\* C4: a quoted scalar is normalised by stripping its quotes, replacing every
\* backslash-quote by a quote and every backslash-backslash by a backslash, then
\* decoding the octal (000-077) and \U escapes and nothing else; no backslash
\* sequence is rejected; an unquoted scalar is returned unchanged.
C4_Normalised ==
    /\ tok # <<>>
        => val = Str(IF tok[1] = QUOTE
                     THEN Decode(Unpair(Unpair(SubSeq(tok, 2, Len(tok) - 1), QUOTE),
                                        BACKSLASH))
                     ELSE tok)
    /\ (pc = "error" /\ tok # <<>>) => err = TrailingContent
    /\ text = ExOctal => pc # "error" /\ (pc = "done" => ret = Str(<<cha, TAB, chb>>))
    /\ text = ExBackslash
        => pc # "error" /\ (pc = "done" => ret = Str(<<cha, BACKSLASH, chb>>))

C4_Witness == pc = "done" /\ text = ExOctal /\ ret = Str(<<cha, TAB, chb>>)

\* The keys of a sequence of assignments, each at its first occurrence.
RECURSIVE KeyOrder(_)
KeyOrder(h) ==
    IF h = <<>> THEN <<>>
    ELSE LET r == KeyOrder(SubSeq(h, 1, Len(h) - 1))
             k == h[Len(h)].k
         IN  IF \E n \in 1..Len(r) : r[n] = k THEN r ELSE Append(r, k)

\* The value of the last assignment to k.
LastValue(h, k) ==
    h[CHOOSE n \in 1..Len(h) : h[n].k = k /\ \A m \in (n + 1)..Len(h) : h[m].k # k].v

\* C5: a parsed mapping iterates its keys in the source's left-to-right order,
\* holds one entry per distinct key, and a key assigned more than once holds
\* the value of its last assignment.
C5_KeyOrderLastWins ==
    val.t = "dict"
        => /\ [n \in 1..Len(val.v) |-> val.v[n].k] = KeyOrder(assigned)
           /\ \A n \in 1..Len(val.v) : val.v[n].v = LastValue(assigned, val.v[n].k)
           /\ (pc = "done" /\ entry = "parse" /\ current_type = "None") => ret = val

C5_Witness ==
    /\ pc = "done"
    /\ ret.t = "dict"
    /\ Len(ret.v) = 2
    /\ Len(assigned) = 3
    /\ assigned[1].k = assigned[3].k
    /\ assigned[1].v # assigned[3].v

\* The first character at or after offset p that is no whitespace, 0 when none.
NextNonSpace(t, p) ==
    LET S == {n \in (p + 1)..Len(t) : ~IsSpace(t[n])}
    IN  IF S = {} THEN 0 ELSE t[Min(S)]

\* C6: in a dict every entry's value must be followed by ';', also the last one:
\* {a=1;} parses to {a: 1}, and a value followed by anything else fails with the
\* missing-dictionary-delimiter error and yields no mapping.
C6_DictDelimiterRequired ==
    /\ [][(pc = "return" /\ stack # <<>> /\ Head(stack).kind = "dict")
            => IF NextNonSpace(text, i) = SEMI
               THEN pc' = "_parse_dict" /\ i' > i /\ text[i'] = SEMI
               ELSE pc' = "error" /\ err' = MissingDictDelim /\ ret' = None]_vars
    /\ [](text = ExDictOk
            => /\ pc # "error"
               /\ (pc = "done" /\ entry = "parse" /\ current_type = "None")
                    => ret = Dict(<<[k |-> <<cha>>, v |-> Str(<<ch1>>)]>>))
    /\ [](text = ExDictNoDelim
            => /\ pc # "done"
               /\ pc = "error" => (err = MissingDictDelim /\ ret = None))

C6_Witness == pc = "error" /\ err = MissingDictDelim /\ text = ExDictNoDelim

\* C7: parse returns a value only if nothing but whitespace follows the
\* top-level value; otherwise it fails with the trailing-content error, returns
\* nothing and never calls the factory.
C7_TrailingContentRejected ==
    /\ (entry = "parse" /\ pc = "done")
        => /\ {n \in (i + 1)..Len(text) : ~IsSpace(text[n])} = {}
           /\ ret # None
    /\ pc = "error" => (ret = None /\ calls = <<>>)
    /\ err = TrailingContent
        => /\ entry = "parse"
           /\ pc = "error"
           /\ {n \in (i + 1)..Len(text) : ~IsSpace(text[n])} # {}
    /\ text = ExDictGarbage /\ entry = "parse"
        => pc # "done" /\ (pc = "error" => err = TrailingContent)

C7_Witness ==
    /\ pc = "error"
    /\ err = TrailingContent
    /\ text = ExDictGarbage
    /\ current_type = "GSGuide"

\* C8: with a target type, parse returns what from_dict makes: of each element
\* in order when the raw value is a sequence, of the raw value otherwise, every
\* call with the parser's formatVersion; with no target type it returns the raw
\* tree and calls nothing.
C8_BinderCalls ==
    (entry = "parse" /\ pc = "done")
        => IF current_type = "None"
           THEN ret = val /\ calls = <<>>
           ELSE IF val.t = "list"
                THEN /\ Len(calls) = Len(val.v)
                     /\ \A n \in 1..Len(val.v) :
                            calls[n] = Call(current_type, val.v[n], formatVersion, "None")
                     /\ ret.t = "list"
                     /\ Len(ret.v) = Len(val.v)
                     /\ \A n \in 1..Len(val.v) :
                            ret.v[n] = from_dict(current_type, val.v[n], formatVersion)
                ELSE /\ calls = <<Call(current_type, val, formatVersion, "None")>>
                     /\ ret = from_dict(current_type, val, formatVersion)

C8_Witness ==
    /\ entry = "parse"
    /\ pc = "done"
    /\ current_type = "GSGuide"
    /\ formatVersion = 3
    /\ val.t = "list"
    /\ Len(calls) = 2

\* C9: parse_into_object calls the factory of res's class once, with the parsed
\* value, the formatVersion given to this call and target=res, and returns the
\* final offset; on a parse error it calls nothing and leaves res unchanged.
C9_IntoObjectUsesItsFormatVersion ==
    /\ (entry = "parse_into_object" /\ pc = "done")
        => /\ calls = <<Call(res.cls, val, fvArg, "res")>>
           /\ ret = Offset(i)
    /\ (entry = "parse_into_object" /\ pc = "error")
        => /\ calls = <<>>
           /\ res.bound = <<>>

ParsingPcs == {"_parse", "_parse_dict", "_parse_list", "return"}

\* A measure every step of the descent decreases.
Measure ==
    3 * (Len(text) - i)
        + (IF pc = "return" THEN 2 ELSE IF pc = "_parse" THEN 0 ELSE 1)

\* C10: a production that succeeds from offset i returns an offset greater than
\* i and at most the length of the text, every iteration of the dict loop and
\* of the list loop increases the offset, no cursor state repeats, and the
\* parse, which at every position has a step of the code to take, ends with a
\* value or an error.
C10_Progress ==
    /\ [][/\ (pc = "_parse" /\ pc' = "return") => (i < i' /\ i' <= Len(text))
          /\ (pc \in {"_parse_dict", "_parse_list"} /\ pc' = "return")
                => /\ Head(stack).start < Head(stack).body
                   /\ Head(stack).body < i'
                   /\ i' <= Len(text)
          /\ (pc = "return" /\ pc' \in {"_parse_dict", "_parse_list"})
                => Head(stack).iter < i'
          /\ (pc \in ParsingPcs /\ pc' \in ParsingPcs) => Measure' < Measure]_vars
    /\ [](/\ pc \in ParsingPcs \cup {"idle", "done", "error"}
          /\ pc = "_parse_dict" => (stack # <<>> /\ Head(stack).kind = "dict")
          /\ pc = "_parse_list" => (stack # <<>> /\ Head(stack).kind = "list")
          /\ pc = "done" => ret # None
          /\ pc = "error" => err # ""
          /\ 0 <= i /\ i <= Len(text))

C10_Witness == pc = "return" /\ stack # <<>> /\ val.t = "dict" /\ i > 6

====
